---- MODULE Spec2Model ----
(***************************************************************************)
(* Model of the actix-web service in src/src/main.rs: seven POST routes    *)
(* that generate keypairs, build ledger instructions and sign / verify     *)
(* messages.                                                               *)
(*                                                                         *)
(* Texts (Rust String / &str) are sequences of ASCII codes, byte arrays    *)
(* are sequences of 0..255, and a u64 is four 16-bit limbs, most           *)
(* significant first (TLC integers are 32 bits wide).  The codecs are      *)
(* computed digit by digit; ed25519 itself is replaced by a toy scheme     *)
(* with the same interface (see DerivePublic, Ed25519Sign, Ed25519Verify). *)
(***************************************************************************)
EXTENDS Integers, Sequences, FiniteSets, TLC

VARIABLES
    stdout,   \* what the process has printed so far, in order
    req,      \* the request served last
    resp,     \* the HTTP response to it: [status, body]
    instr,    \* << >> or <<i>>, the Instruction the handler built for it
    steps,    \* the engine calls /message/sign made for it, in order
    issued,   \* the /keypair response bodies handed to callers so far
    first     \* the first request of the run and its response

vars == <<stdout, req, resp, instr, steps, issued, first>>

----------------------------------------------------------------------------
(* Sequences and fixed-width integers *)

Rep(v, n) == [i \in 1..n |-> v]

Reverse(s) == [i \in 1..Len(s) |-> s[Len(s) + 1 - i]]

\* number of leading elements of s equal to v
LeadingCount(s, v) ==
    IF \A i \in 1..Len(s) : s[i] = v THEN Len(s)
    ELSE (CHOOSE i \in 1..Len(s) : s[i] # v /\ \A j \in 1..(i - 1) : s[j] = v) - 1

\* u64::to_le_bytes on four 16-bit limbs, most significant limb first
ToLeBytes(v) ==
    << v[4] % 256, v[4] \div 256, v[3] % 256, v[3] \div 256,
       v[2] % 256, v[2] \div 256, v[1] % 256, v[1] \div 256 >>

\* u64::from_le_bytes, back to the four limbs
FromLeBytes(b) ==
    << b[8] * 256 + b[7], b[6] * 256 + b[5], b[4] * 256 + b[3], b[2] * 256 + b[1] >>

----------------------------------------------------------------------------
(* Base-58 (bs58 / base58 crates, Bitcoin alphabet) *)

B58Alphabet ==
    << 49, 50, 51, 52, 53, 54, 55, 56, 57, 65, 66, 67, 68, 69, 70, 71, 72, 74,
       75, 76, 77, 78, 80, 81, 82, 83, 84, 85, 86, 87, 88, 89, 90, 97, 98, 99,
       100, 101, 102, 103, 104, 105, 106, 107, 109, 110, 111, 112, 113, 114,
       115, 116, 117, 118, 119, 120, 121, 122 >>

\* the digit a character stands for, -1 when it is not in the alphabet
B58Value(c) ==
    IF \E i \in 1..58 : B58Alphabet[i] = c
    THEN (CHOOSE i \in 1..58 : B58Alphabet[i] = c) - 1
    ELSE -1

\* one pass of the radix conversion over num[lo..hi] (little-endian digits in
\* radix `to`): num * from + carry, the carry running through st
RECURSIVE MulAddRange(_, _, _, _, _, _)
MulAddRange(num, lo, hi, st, from, to) ==
    IF lo > hi THEN st
    ELSE IF lo = hi
    THEN LET t == num[lo] * from + st.carry
         IN [out |-> Append(st.out, t % to), carry |-> t \div to]
    ELSE LET mid == (lo + hi) \div 2
         IN CHOOSE r \in {MulAddRange(num, mid + 1, hi, left, from, to) :
                           left \in {MulAddRange(num, lo, mid, st, from, to)}} : TRUE

\* the digits the last carry still holds (at most two: carry < from <= to * to)
Flush(st, to) ==
    IF st.carry = 0 THEN st.out
    ELSE IF st.carry < to THEN Append(st.out, st.carry)
    ELSE Append(Append(st.out, st.carry % to), st.carry \div to)

\* the number with big-endian digits src[lo..hi] in radix `from`, added to
\* num * from^(hi-lo+1), as little-endian digits in radix `to`
RECURSIVE RadixRange(_, _, _, _, _, _)
RadixRange(src, lo, hi, num, from, to) ==
    IF lo > hi THEN num
    ELSE IF lo = hi
    THEN Flush(MulAddRange(num, 1, Len(num), [out |-> <<>>, carry |-> src[lo]], from, to), to)
    ELSE LET mid == (lo + hi) \div 2
         IN CHOOSE r \in {RadixRange(src, mid + 1, hi, left, from, to) :
                           left \in {RadixRange(src, lo, mid, num, from, to)}} : TRUE

\* bytes -> base-58 text: one '1' per leading zero byte, then the number
ToBase58(bytes) ==
    LET z == LeadingCount(bytes, 0)
        digits == Rep(0, z) \o Reverse(RadixRange(bytes, z + 1, Len(bytes), <<>>, 256, 58))
    IN [i \in 1..Len(digits) |-> B58Alphabet[digits[i] + 1]]

\* base-58 text -> bytes, failing on a character outside the alphabet
FromBase58(text) ==
    IF \E i \in 1..Len(text) : B58Value(text[i]) = -1
    THEN [ok |-> FALSE, bytes |-> <<>>]
    ELSE LET digits == [i \in 1..Len(text) |-> B58Value(text[i])]
             z == LeadingCount(digits, 0)
         IN [ok |-> TRUE,
             bytes |-> Rep(0, z) \o Reverse(RadixRange(digits, z + 1, Len(digits), <<>>, 58, 256))]

----------------------------------------------------------------------------
(* Base-64 (base64::engine::general_purpose::STANDARD: padded, canonical) *)

B64Alphabet ==
    << 65, 66, 67, 68, 69, 70, 71, 72, 73, 74, 75, 76, 77, 78, 79, 80, 81, 82,
       83, 84, 85, 86, 87, 88, 89, 90, 97, 98, 99, 100, 101, 102, 103, 104, 105,
       106, 107, 108, 109, 110, 111, 112, 113, 114, 115, 116, 117, 118, 119,
       120, 121, 122, 48, 49, 50, 51, 52, 53, 54, 55, 56, 57, 43, 47 >>

B64Pad == 61

B64Value(c) ==
    IF \E i \in 1..64 : B64Alphabet[i] = c
    THEN (CHOOSE i \in 1..64 : B64Alphabet[i] = c) - 1
    ELSE -1

\* STANDARD.encode: 3 bytes -> 4 characters, the last group padded with '='
Base64Encode(bytes) ==
    LET n == Len(bytes)
        at(k) == IF k <= n THEN bytes[k] ELSE 0
    IN [i \in 1..(4 * ((n + 2) \div 3)) |->
          LET g == (i - 1) \div 4
              p == (i - 1) % 4
              v == at(3 * g + 1) * 65536 + at(3 * g + 2) * 256 + at(3 * g + 3)
          IN IF p > n - 3 * g THEN B64Pad
             ELSE B64Alphabet[((v \div <<262144, 4096, 64, 1>>[p + 1]) % 64) + 1]]

\* STANDARD.decode: the length is a multiple of 4, '=' only as the last one or
\* two characters, and the bits the padding drops are zero
Base64Decode(text) ==
    LET n == Len(text)
        pad == IF n >= 2 /\ text[n] = B64Pad /\ text[n - 1] = B64Pad THEN 2
               ELSE IF n >= 1 /\ text[n] = B64Pad THEN 1 ELSE 0
        val(k) == IF k > n - pad THEN 0 ELSE B64Value(text[k])
        wellFormed ==
            /\ n % 4 = 0
            /\ \A k \in 1..(n - pad) : B64Value(text[k]) # -1
            /\ pad = 1 => val(n - 1) % 4 = 0
            /\ pad = 2 => val(n - 2) % 16 = 0
    IN IF ~wellFormed THEN [ok |-> FALSE, bytes |-> <<>>]
       ELSE [ok |-> TRUE,
             bytes |-> [j \in 1..(3 * (n \div 4) - pad) |->
                 LET g == (j - 1) \div 3
                     k == (j - 1) % 3
                     v == val(4 * g + 1) * 262144 + val(4 * g + 2) * 4096
                          + val(4 * g + 3) * 64 + val(4 * g + 4)
                 IN (v \div <<65536, 256, 1>>[k + 1]) % 256]]

----------------------------------------------------------------------------
(* solana_sdk: Pubkey, Keypair, Signature.  Ed25519 is replaced by a toy   *)
(* scheme over the same shapes (32-byte seed and public key, 64-byte       *)
(* keypair and signature) that keeps what the handlers rely on: the public  *)
(* key is a function of the seed, signing is deterministic, and a          *)
(* signature verifies exactly under the key, message and bytes it was made  *)
(* from.  It makes no claim of unforgeability.                             *)

PUBKEY_BYTES == 32

SIGNATURE_BYTES == 64

KEYPAIR_LENGTH == 64

MAX_BASE58_LEN == 44

\* Pubkey::from_str: at most 44 characters of base-58 that decode to 32 bytes
PubkeyFromStr(text) ==
    IF Len(text) > MAX_BASE58_LEN THEN [ok |-> FALSE, pk |-> <<>>]
    ELSE LET d == FromBase58(text)
         IN IF d.ok /\ Len(d.bytes) = PUBKEY_BYTES
            THEN [ok |-> TRUE, pk |-> d.bytes]
            ELSE [ok |-> FALSE, pk |-> <<>>]

\* Pubkey::to_string
PubkeyToString(pk) == ToBase58(pk)

\* the public key of a seed
DerivePublic(seed) == [i \in 1..PUBKEY_BYTES |-> (seed[i] * 5 + 3 * i + 17) % 256]

\* Keypair::new() with the 32 random bytes the OS generator returned
KeypairNew(seed) == [secret |-> seed, public |-> DerivePublic(seed)]

\* Keypair::to_bytes: seed, then public key
KeypairToBytes(kp) == kp.secret \o kp.public

\* Keypair::from_bytes: 64 bytes whose public half is the one the seed half
\* derives
KeypairFromBytes(bytes) ==
    IF Len(bytes) # KEYPAIR_LENGTH THEN [ok |-> FALSE]
    ELSE LET seed == SubSeq(bytes, 1, 32)
             public == SubSeq(bytes, 33, 64)
         IN IF public = DerivePublic(seed)
            THEN [ok |-> TRUE, kp |-> [secret |-> seed, public |-> public]]
            ELSE [ok |-> FALSE]

RECURSIVE MessageDigest(_, _)
MessageDigest(msg, i) ==
    IF i > Len(msg) THEN 0 ELSE (i * msg[i] + MessageDigest(msg, i + 1)) % 256

\* Keypair::sign_message: R, then S bound to R, the public key and the message
Ed25519Sign(kp, msg) ==
    LET h == MessageDigest(msg, 1)
        R == [i \in 1..32 |-> (kp.secret[i] * 7 + h + i) % 256]
    IN R \o [i \in 1..32 |-> (R[i] + kp.public[i] + h) % 256]

\* Signature::try_from(&[u8]): exactly 64 bytes
SignatureTryFrom(bytes) ==
    IF Len(bytes) = SIGNATURE_BYTES THEN [ok |-> TRUE, sig |-> bytes] ELSE [ok |-> FALSE]

\* Signature::verify(pubkey_bytes, message_bytes)
Ed25519Verify(sig, pk, msg) ==
    LET h == MessageDigest(msg, 1)
    IN \A i \in 1..32 : sig[32 + i] = (sig[i] + pk[i] + h) % 256

----------------------------------------------------------------------------
(* Program ids and the instruction builders of spl_token and               *)
(* system_instruction, as the handlers call them (no multisig signers).    *)

\* spl_token::id(): TokenkegQfeZyiNwAJbNbGKPFXCWuBvf9Ss623VQ5DA
SplTokenId ==
    PubkeyFromStr(<< 84, 111, 107, 101, 110, 107, 101, 103, 81, 102, 101, 90, 121,
                     105, 78, 119, 65, 74, 98, 78, 98, 71, 75, 80, 70, 88, 67, 87,
                     117, 66, 118, 102, 57, 83, 115, 54, 50, 51, 86, 81, 53, 68, 65 >>).pk

\* sysvar::rent::id(): SysvarRent111111111111111111111111111111111
RentSysvarId ==
    PubkeyFromStr(<< 83, 121, 115, 118, 97, 114, 82, 101, 110, 116 >> \o Rep(49, 33)).pk

\* system_program::id(): 11111111111111111111111111111111
SystemProgramId == Rep(0, PUBKEY_BYTES)

\* AccountMeta::new / AccountMeta::new_readonly
AccountMetaNew(pk, signer) == [pubkey |-> pk, is_signer |-> signer, is_writable |-> TRUE]

AccountMetaReadonly(pk, signer) == [pubkey |-> pk, is_signer |-> signer, is_writable |-> FALSE]

\* spl_token::instruction::initialize_mint(program, mint, authority, None, decimals)
initialize_mint(mint, mintAuthority, decimals) ==
    [ok |-> TRUE,
     instr |-> [program_id |-> SplTokenId,
                accounts |-> << AccountMetaNew(mint, FALSE),
                                AccountMetaReadonly(RentSysvarId, FALSE) >>,
                data |-> <<0, decimals>> \o mintAuthority \o <<0>>]]

\* spl_token::instruction::mint_to(program, mint, account, owner, &[], amount)
mint_to(mint, account, owner, amount) ==
    [ok |-> TRUE,
     instr |-> [program_id |-> SplTokenId,
                accounts |-> << AccountMetaNew(mint, FALSE),
                                AccountMetaNew(account, FALSE),
                                AccountMetaReadonly(owner, TRUE) >>,
                data |-> <<7>> \o ToLeBytes(amount)]]

\* spl_token::instruction::transfer(program, source, destination, authority, &[], amount)
spl_transfer(source, destination, authority, amount) ==
    [ok |-> TRUE,
     instr |-> [program_id |-> SplTokenId,
                accounts |-> << AccountMetaNew(source, FALSE),
                                AccountMetaNew(destination, FALSE),
                                AccountMetaReadonly(authority, TRUE) >>,
                data |-> <<3>> \o ToLeBytes(amount)]]

\* system_instruction::transfer(from, to, lamports): bincode of
\* SystemInstruction::Transfer, a u32 variant index 2 and the u64
system_transfer(from, to, lamports) ==
    [program_id |-> SystemProgramId,
     accounts |-> << AccountMetaNew(from, TRUE), AccountMetaNew(to, FALSE) >>,
     data |-> <<2, 0, 0, 0>> \o ToLeBytes(lamports)]

----------------------------------------------------------------------------
(* Response envelopes *)

\* HttpResponse::Ok().json({success: true, data})
Ok(data, built, calls) ==
    [status |-> 200, body |-> [success |-> TRUE, data |-> data],
     instr |-> built, steps |-> calls]

\* Faulty variant of BadRequest: once a request has failed, later failures are
\* answered 500.
BadRequestAfterFailure(error, calls) ==
    IF resp.status = 400
    THEN [status |-> 500, body |-> [success |-> FALSE, error |-> "Internal Server Error"],
          instr |-> <<>>, steps |-> calls]
    ELSE [status |-> 400, body |-> [success |-> FALSE, error |-> error],
          instr |-> <<>>, steps |-> calls]

\* HttpResponse::BadRequest().json({success: false, error})
BadRequest(error, calls) ==
    [status |-> 400, body |-> [success |-> FALSE, error |-> error],
     instr |-> <<>>, steps |-> calls]

\* Faulty variant of AccountMetaResponses: the two flags exchanged.
AccountMetaResponsesFlagsSwapped(accounts) ==
    [i \in 1..Len(accounts) |->
        [pubkey |-> PubkeyToString(accounts[i].pubkey),
         is_signer |-> accounts[i].is_writable,
         is_writable |-> accounts[i].is_signer]]

\* the accounts of an instruction as {pubkey, is_signer, is_writable} objects
AccountMetaResponses(accounts) ==
    [i \in 1..Len(accounts) |->
        [pubkey |-> PubkeyToString(accounts[i].pubkey),
         is_signer |-> accounts[i].is_signer,
         is_writable |-> accounts[i].is_writable]]

\* the accounts of an instruction as {pubkey, is_signer} objects
TokenAccountMetas(accounts) ==
    [i \in 1..Len(accounts) |->
        [pubkey |-> PubkeyToString(accounts[i].pubkey),
         is_signer |-> accounts[i].is_signer]]

----------------------------------------------------------------------------
(* The handlers.  Each takes the deserialized request and returns the       *)
(* response (status, body) together with the instruction it built and the  *)
(* engine calls it made.                                                    *)

\* POST /keypair; seed is what Keypair::new() drew.  `printed` is the line
\* print! writes to the process output.
generate_keypair(seed) ==
    LET keypair == KeypairNew(seed)
        pubkey == PubkeyToString(keypair.public)
        secret == ToBase58(KeypairToBytes(keypair))
        bytes == KeypairToBytes(keypair)
    IN [status |-> 200,
        body |-> [success |-> TRUE, data |-> [pubkey |-> pubkey, secret |-> secret]],
        instr |-> <<>>, steps |-> <<>>,
        printed |-> [pubkey |-> pubkey, bytes |-> bytes]]

\* POST /token/create
create_token(r) ==
    LET mintAuthority == PubkeyFromStr(r.mintAuthority)
        mint == PubkeyFromStr(r.mint)
        built == initialize_mint(mint.pk, mintAuthority.pk, r.decimals)
    IN IF ~mintAuthority.ok THEN BadRequest("Invalid mint authority pubkey", <<>>)
       ELSE IF ~mint.ok THEN BadRequest("Invalid mint pubkey", <<>>)
       ELSE IF ~built.ok THEN BadRequest("Failed to build instruction", <<>>)
       ELSE Ok([program_id |-> PubkeyToString(built.instr.program_id),
                accounts |-> AccountMetaResponses(built.instr.accounts),
                instruction_data |-> Base64Encode(built.instr.data)],
               <<built.instr>>, <<>>)

\* Faulty variant of mint_token: mint and destination exchanged in the call of mint_to.
mint_token_swapped(r) ==
    LET mint == PubkeyFromStr(r.mint)
        dest == PubkeyFromStr(r.destination)
        authority == PubkeyFromStr(r.authority)
        built == mint_to(dest.pk, mint.pk, authority.pk, r.amount)
    IN IF ~mint.ok THEN BadRequest("Invalid mint pubkey", <<>>)
       ELSE IF ~dest.ok THEN BadRequest("Invalid destination pubkey", <<>>)
       ELSE IF ~authority.ok THEN BadRequest("Invalid authority pubkey", <<>>)
       ELSE IF ~built.ok THEN BadRequest("Failed to create instruction", <<>>)
       ELSE Ok([program_id |-> PubkeyToString(built.instr.program_id),
                accounts |-> AccountMetaResponses(built.instr.accounts),
                instruction_data |-> Base64Encode(built.instr.data)],
               <<built.instr>>, <<>>)

\* POST /token/mint
mint_token(r) ==
    LET mint == PubkeyFromStr(r.mint)
        dest == PubkeyFromStr(r.destination)
        authority == PubkeyFromStr(r.authority)
        built == mint_to(mint.pk, dest.pk, authority.pk, r.amount)
    IN IF ~mint.ok THEN BadRequest("Invalid mint pubkey", <<>>)
       ELSE IF ~dest.ok THEN BadRequest("Invalid destination pubkey", <<>>)
       ELSE IF ~authority.ok THEN BadRequest("Invalid authority pubkey", <<>>)
       ELSE IF ~built.ok THEN BadRequest("Failed to create instruction", <<>>)
       ELSE Ok([program_id |-> PubkeyToString(built.instr.program_id),
                accounts |-> AccountMetaResponses(built.instr.accounts),
                instruction_data |-> Base64Encode(built.instr.data)],
               <<built.instr>>, <<>>)

\* Faulty variant of sign_message: the secret is decoded before the fields are
\* checked for emptiness.
sign_message_decoding_first(r) ==
    LET secret_bytes == FromBase58(r.secret)
        keypair == KeypairFromBytes(secret_bytes.bytes)
        signature == Ed25519Sign(keypair.kp, r.message)
    IN IF ~secret_bytes.ok
       THEN BadRequest("Invalid base58 secret key", <<"from_base58">>)
       ELSE IF Len(r.message) = 0 \/ Len(r.secret) = 0
       THEN BadRequest("Missing required fields", <<"from_base58">>)
       ELSE IF ~keypair.ok
       THEN BadRequest("Missing required fields",
                       <<"from_base58", "Keypair::from_bytes">>)
       ELSE Ok([signature |-> Base64Encode(signature),
                public_key |-> PubkeyToString(keypair.kp.public),
                message |-> r.message],
               <<>>, <<"from_base58", "Keypair::from_bytes", "sign_message">>)

\* Faulty variant of sign_message: the signature goes out in base-58, the codec of
\* the secret, instead of base-64.
sign_message_base58_signature(r) ==
    IF Len(r.message) = 0 \/ Len(r.secret) = 0
    THEN BadRequest("Missing required fields", <<>>)
    ELSE LET secret_bytes == FromBase58(r.secret)
             keypair == KeypairFromBytes(secret_bytes.bytes)
             signature == Ed25519Sign(keypair.kp, r.message)
         IN IF ~secret_bytes.ok
            THEN BadRequest("Invalid base58 secret key", <<"from_base58">>)
            ELSE IF ~keypair.ok
            THEN BadRequest("Missing required fields",
                            <<"from_base58", "Keypair::from_bytes">>)
            ELSE Ok([signature |-> ToBase58(signature),
                     public_key |-> PubkeyToString(keypair.kp.public),
                     message |-> r.message],
                    <<>>, <<"from_base58", "Keypair::from_bytes", "sign_message">>)

\* POST /message/sign
sign_message(r) ==
    IF Len(r.message) = 0 \/ Len(r.secret) = 0
    THEN BadRequest("Missing required fields", <<>>)
    ELSE LET secret_bytes == FromBase58(r.secret)
             keypair == KeypairFromBytes(secret_bytes.bytes)
             signature == Ed25519Sign(keypair.kp, r.message)
         IN IF ~secret_bytes.ok
            THEN BadRequest("Invalid base58 secret key", <<"from_base58">>)
            ELSE IF ~keypair.ok
            THEN BadRequest("Missing required fields",
                            <<"from_base58", "Keypair::from_bytes">>)
            ELSE Ok([signature |-> Base64Encode(signature),
                     public_key |-> PubkeyToString(keypair.kp.public),
                     message |-> r.message],
                    <<>>, <<"from_base58", "Keypair::from_bytes", "sign_message">>)

\* Faulty variant of verify_message: a signature that does not authenticate the
\* message is answered as an error.
verify_message_rejecting_mismatch(r) ==
    LET pubkey == PubkeyFromStr(r.pubkey)
        signature_bytes == Base64Decode(r.signature)
        signature == SignatureTryFrom(signature_bytes.bytes)
    IN IF ~pubkey.ok THEN BadRequest("Invalid public key", <<>>)
       ELSE IF ~signature_bytes.ok THEN BadRequest("Invalid base64 signature", <<>>)
       ELSE IF ~signature.ok THEN BadRequest("Invalid signature format", <<>>)
       ELSE IF ~Ed25519Verify(signature.sig, pubkey.pk, r.message)
       THEN BadRequest("Invalid signature format", <<>>)
       ELSE Ok([valid |-> TRUE,
                message |-> r.message,
                pubkey |-> PubkeyToString(pubkey.pk)],
               <<>>, <<>>)

\* POST /message/verify
verify_message(r) ==
    LET pubkey == PubkeyFromStr(r.pubkey)
        signature_bytes == Base64Decode(r.signature)
        signature == SignatureTryFrom(signature_bytes.bytes)
    IN IF ~pubkey.ok THEN BadRequest("Invalid public key", <<>>)
       ELSE IF ~signature_bytes.ok THEN BadRequest("Invalid base64 signature", <<>>)
       ELSE IF ~signature.ok THEN BadRequest("Invalid signature format", <<>>)
       ELSE Ok([valid |-> Ed25519Verify(signature.sig, pubkey.pk, r.message),
                message |-> r.message,
                pubkey |-> PubkeyToString(pubkey.pk)],
               <<>>, <<>>)

\* Faulty variant of send_sol: lamports narrowed to 32 bits on the way to the builder.
send_sol_truncating(r) ==
    LET from == PubkeyFromStr(r.from)
        to == PubkeyFromStr(r.to)
        built == system_transfer(from.pk, to.pk, <<0, 0, r.lamports[3], r.lamports[4]>>)
    IN IF ~from.ok THEN BadRequest("Invalid sender address", <<>>)
       ELSE IF ~to.ok THEN BadRequest("Invalid recipient address", <<>>)
       ELSE Ok([program_id |-> PubkeyToString(built.program_id),
                accounts |-> << PubkeyToString(built.accounts[1].pubkey),
                                PubkeyToString(built.accounts[2].pubkey) >>,
                instruction_data |-> Base64Encode(built.data)],
               <<built>>, <<>>)

\* POST /send/sol: the accounts are returned as two address texts
send_sol(r) ==
    LET from == PubkeyFromStr(r.from)
        to == PubkeyFromStr(r.to)
        built == system_transfer(from.pk, to.pk, r.lamports)
    IN IF ~from.ok THEN BadRequest("Invalid sender address", <<>>)
       ELSE IF ~to.ok THEN BadRequest("Invalid recipient address", <<>>)
       ELSE Ok([program_id |-> PubkeyToString(built.program_id),
                accounts |-> << PubkeyToString(built.accounts[1].pubkey),
                                PubkeyToString(built.accounts[2].pubkey) >>,
                instruction_data |-> Base64Encode(built.data)],
               <<built>>, <<>>)

\* Faulty variant of send_token: the mint is passed as the source account.
send_token_mint_as_source(r) ==
    LET destination == PubkeyFromStr(r.destination)
        mint == PubkeyFromStr(r.mint)
        owner == PubkeyFromStr(r.owner)
        built == spl_transfer(mint.pk, destination.pk, owner.pk, r.amount)
    IN IF ~destination.ok THEN BadRequest("Invalid destination address", <<>>)
       ELSE IF ~mint.ok THEN BadRequest("Invalid mint address", <<>>)
       ELSE IF ~owner.ok THEN BadRequest("Invalid owner address", <<>>)
       ELSE IF ~built.ok THEN BadRequest("Failed to build transfer", <<>>)
       ELSE Ok([program_id |-> PubkeyToString(built.instr.program_id),
                accounts |-> TokenAccountMetas(built.instr.accounts),
                instruction_data |-> Base64Encode(built.instr.data)],
               <<built.instr>>, <<>>)

\* POST /send/token: owner is both the source account and the authority
send_token(r) ==
    LET destination == PubkeyFromStr(r.destination)
        mint == PubkeyFromStr(r.mint)
        owner == PubkeyFromStr(r.owner)
        built == spl_transfer(owner.pk, destination.pk, owner.pk, r.amount)
    IN IF ~destination.ok THEN BadRequest("Invalid destination address", <<>>)
       ELSE IF ~mint.ok THEN BadRequest("Invalid mint address", <<>>)
       ELSE IF ~owner.ok THEN BadRequest("Invalid owner address", <<>>)
       ELSE IF ~built.ok THEN BadRequest("Failed to build transfer", <<>>)
       ELSE Ok([program_id |-> PubkeyToString(built.instr.program_id),
                accounts |-> TokenAccountMetas(built.instr.accounts),
                instruction_data |-> Base64Encode(built.instr.data)],
               <<built.instr>>, <<>>)

----------------------------------------------------------------------------
(* Inputs.  Keypair::new() draws one of two seeds; requests carry texts    *)
(* that parse, texts that do not, and amounts at both ends of u64.         *)

MaxKeypairs == 1

Seed1 == [i \in 1..32 |-> (i * 13 + 5) % 256]

Seed2 == [i \in 1..32 |-> (i * 29 + 101) % 256]

Seeds == {Seed1, Seed2}

AddrA == PubkeyToString([i \in 1..32 |-> (i * 7 + 1) % 256])

AddrB == PubkeyToString([i \in 1..32 |-> (i * 11 + 2) % 256])

AddrC == PubkeyToString([i \in 1..32 |-> (i * 19 + 3) % 256])

\* "0OIl": four characters outside the base-58 alphabet
BadCharText == <<48, 79, 73, 108>>

\* valid base-58 of 31 bytes
ShortText == ToBase58([i \in 1..31 |-> (i * 7 + 1) % 256])

\* 45 characters of valid base-58
LongText == Rep(50, 45)

U64Zero == <<0, 0, 0, 0>>

\* 1000
U64Thousand == <<0, 0, 0, 1000>>

\* 2^64 - 1
U64Max == <<65535, 65535, 65535, 65535>>

Amounts == {U64Zero, U64Thousand, U64Max}

\* "hi" and "ho"
MsgHi == <<104, 105>>

MsgHo == <<104, 111>>

SecretOf(seed) == ToBase58(KeypairToBytes(KeypairNew(seed)))

PubkeyOf(seed) == PubkeyToString(DerivePublic(seed))

\* 64 bytes whose public half belongs to another seed
MismatchedSecret == ToBase58(Seed1 \o DerivePublic(Seed2))

\* "@@@@": not base-64
BadBase64Text == <<64, 64, 64, 64>>

KeypairRequest == [route |-> "/keypair"]

CreateTokenRequests ==
    {[route |-> "/token/create", mintAuthority |-> a, mint |-> m, decimals |-> d] :
        a \in {AddrA, BadCharText}, m \in {AddrB, ShortText}, d \in {9, 255}}

MintTokenRequests ==
    {[route |-> "/token/mint", mint |-> m, destination |-> d, authority |-> a, amount |-> n] :
        m \in {AddrA, BadCharText}, d \in {AddrB, ShortText}, a \in {AddrC, LongText},
        n \in Amounts}

SignMessageRequests ==
    {[route |-> "/message/sign", message |-> m, secret |-> k] :
        m \in {<<>>, MsgHi},
        k \in {<<>>, SecretOf(Seed1), SecretOf(Seed2), BadCharText, AddrA, MismatchedSecret}}

VerifyMessageRequests ==
    {[route |-> "/message/verify", message |-> m, signature |-> g, pubkey |-> k] :
        m \in {MsgHi, MsgHo},
        g \in {Base64Encode(Ed25519Sign(KeypairNew(Seed1), MsgHi)),
               Base64Encode(Rep(7, 63)), Base64Encode(Rep(7, 65)), BadBase64Text},
        k \in {PubkeyOf(Seed1), BadCharText}}

SendSolRequests ==
    {[route |-> "/send/sol", from |-> f, to |-> t, lamports |-> n] :
        f \in {AddrA, ShortText}, t \in {AddrB, BadCharText}, n \in Amounts}

SendTokenRequests ==
    {[route |-> "/send/token", destination |-> d, mint |-> m, owner |-> o, amount |-> n] :
        d \in {AddrA, BadCharText}, m \in {AddrB, AddrC, ShortText}, o \in {AddrC, LongText},
        n \in Amounts}

\* the handlers' answers over the request sets
KeypairResponses == [seed \in Seeds |-> generate_keypair(seed)]

CreateTokenResponses == [r \in CreateTokenRequests |-> create_token(r)]

MintTokenResponses == [r \in MintTokenRequests |-> mint_token(r)]

SignMessageResponses == [r \in SignMessageRequests |-> sign_message(r)]

VerifyMessageResponses == [r \in VerifyMessageRequests |-> verify_message(r)]

SendSolResponses == [r \in SendSolRequests |-> send_sol(r)]

SendTokenResponses == [r \in SendTokenRequests |-> send_token(r)]

----------------------------------------------------------------------------
(* The server: main prints its banner and serves requests one at a time.   *)

NoRequest == [route |-> "none"]

NoResponse == [status |-> 0, body |-> [success |-> FALSE, error |-> ""]]

Init ==
    /\ stdout = << [fmt |-> " Server running on http://127.0.0.1:8080", args |-> <<>>] >>
    /\ req = NoRequest
    /\ resp = NoResponse
    /\ instr = <<>>
    /\ steps = <<>>
    /\ issued = {}
    /\ first = [req |-> NoRequest, resp |-> NoResponse, lines |-> 0]

\* request r is answered with the handler's result out
Serve(r, out) ==
    /\ req' = r
    /\ resp' = [status |-> out.status, body |-> out.body]
    /\ instr' = out.instr
    /\ steps' = out.steps

GenerateKeypair ==
    /\ Len(stdout) <= MaxKeypairs
    /\ \E seed \in Seeds :
        LET out == KeypairResponses[seed]
        IN /\ Serve(KeypairRequest, out)
           /\ stdout' = Append(stdout,
                  [fmt |-> "Generated Keypair: pubkey: {}, secret: {:?}",
                   args |-> <<out.printed.pubkey, out.printed.bytes>>])
           /\ issued' = issued \cup {out.body.data}

CreateToken ==
    /\ \E r \in CreateTokenRequests : Serve(r, CreateTokenResponses[r])
    /\ UNCHANGED <<stdout, issued>>

MintToken ==
    /\ \E r \in MintTokenRequests : Serve(r, MintTokenResponses[r])
    /\ UNCHANGED <<stdout, issued>>

SignMessage ==
    /\ \E r \in SignMessageRequests : Serve(r, SignMessageResponses[r])
    /\ UNCHANGED <<stdout, issued>>

VerifyMessage ==
    /\ \E r \in VerifyMessageRequests : Serve(r, VerifyMessageResponses[r])
    /\ UNCHANGED <<stdout, issued>>

SendSol ==
    /\ \E r \in SendSolRequests : Serve(r, SendSolResponses[r])
    /\ UNCHANGED <<stdout, issued>>

SendToken ==
    /\ \E r \in SendTokenRequests : Serve(r, SendTokenResponses[r])
    /\ UNCHANGED <<stdout, issued>>

\* the handlers behind App::new().service(...)
Next ==
    \/ GenerateKeypair /\ UNCHANGED first
    \/ CreateToken /\ UNCHANGED first
    \/ MintToken /\ UNCHANGED first
    \/ SignMessage /\ UNCHANGED first
    \/ VerifyMessage /\ UNCHANGED first
    \/ SendSol /\ UNCHANGED first
    \/ SendToken /\ UNCHANGED first

Spec == Init /\ [][Next]_vars

\* the first request of the run is kept, with its response and the number of
\* lines printed when it was answered
Remember ==
    first' = IF first.req = NoRequest
             THEN [req |-> req', resp |-> resp', lines |-> Len(stdout')]
             ELSE first

NextFirst ==
    \/ GenerateKeypair /\ Remember
    \/ CreateToken /\ Remember
    \/ MintToken /\ Remember
    \/ SignMessage /\ Remember
    \/ VerifyMessage /\ Remember
    \/ SendSol /\ Remember
    \/ SendToken /\ Remember

SpecFirst == Init /\ [][NextFirst]_vars

----------------------------------------------------------------------------
(* Properties *)

BuilderRoutes == {"/token/create", "/token/mint", "/send/sol", "/send/token"}

ErrorEnvelope(error) == [success |-> FALSE, error |-> error]

\* needle occurs in hay as a contiguous run
Contains(hay, needle) ==
    \E k \in 0..(Len(hay) - Len(needle)) :
        \A j \in 1..Len(needle) : hay[k + j] = needle[j]

\* C1: on /message/verify with a pubkey that parses and a signature that is
\* valid base-64, a decoded signature of any length but 64 gets the error
\* envelope "Invalid signature format" (no `valid`), and one of exactly 64
\* bytes gets a success envelope whose `valid` is a boolean, whether or not
\* the signature authenticates the message.
C1_VerifyLengthOrBoolean ==
    (/\ req.route = "/message/verify"
     /\ PubkeyFromStr(req.pubkey).ok
     /\ Base64Decode(req.signature).ok)
    => IF Len(Base64Decode(req.signature).bytes) # 64
       THEN /\ resp.status = 400
            /\ resp.body = ErrorEnvelope("Invalid signature format")
       ELSE /\ resp.status = 200
            /\ resp.body.success = TRUE
            /\ resp.body.data.valid \in BOOLEAN

\* a 64-byte signature that does not authenticate the message: valid = false
C1_Witness ==
    /\ req.route = "/message/verify"
    /\ PubkeyFromStr(req.pubkey).ok
    /\ Base64Decode(req.signature).ok
    /\ Len(Base64Decode(req.signature).bytes) = 64
    /\ resp.status = 200
    /\ resp.body.data.valid = FALSE

\* C2: /message/sign with a non-empty message and the secret of a keypair
\* that /keypair returned succeeds with that keypair's pubkey as public_key,
\* and /message/verify of the message with the returned signature and
\* public_key succeeds with valid = true.
C2_SignVerifyRoundTrip ==
    \A k \in issued :
        (/\ req.route = "/message/sign"
         /\ Len(req.message) > 0
         /\ req.secret = k.secret)
        => /\ resp.status = 200
           /\ resp.body.success = TRUE
           /\ resp.body.data.public_key = k.pubkey
           /\ LET v == verify_message([route |-> "/message/verify",
                                       message |-> req.message,
                                       signature |-> resp.body.data.signature,
                                       pubkey |-> resp.body.data.public_key])
              IN /\ v.status = 200
                 /\ v.body.success = TRUE
                 /\ v.body.data.valid = TRUE

C2_Witness ==
    /\ req.route = "/message/sign"
    /\ Len(req.message) > 0
    /\ \E k \in issued : req.secret = k.secret
    /\ resp.status = 200

\* C3: /message/sign with an empty message or an empty secret answers with
\* the request-validation error envelope and status 400, having made no
\* engine call: no secret decoded, no keypair rebuilt, nothing signed.
C3_EmptyFieldsRejectedFirst ==
    (/\ req.route = "/message/sign"
     /\ (Len(req.message) = 0 \/ Len(req.secret) = 0))
    => /\ resp.status = 400
       /\ resp.body = ErrorEnvelope("Missing required fields")
       /\ steps = <<>>

\* an empty message with a secret that would fail to decode
C3_Witness ==
    /\ req.route = "/message/sign"
    /\ Len(req.message) = 0
    /\ Len(req.secret) > 0
    /\ ~FromBase58(req.secret).ok
    /\ resp.status = 400
    /\ steps = <<>>

\* C4: no line of the process output contains the seed of a keypair that
\* /keypair generated.
C4_SecretsNeverPrinted ==
    \A k \in issued : \A i \in 1..Len(stdout) : \A j \in 1..Len(stdout[i].args) :
        ~Contains(stdout[i].args[j], SubSeq(FromBase58(k.secret).bytes, 1, 32))

\* C5: the built instruction's accounts are the operation's fixed sequence:
\* initialize mint [mint (writable, not signer), rent sysvar (not signer, not
\* writable)]; mint-to [mint (writable), destination (writable), authority
\* (signer)]; token transfer [source (writable), destination (writable), owner
\* (signer)]; native transfer [from (signer, writable), to (writable)]; and
\* requests whose addresses all parse do build it.
C5_AccountOrder ==
    /\ (/\ req.route = "/token/create"
        /\ PubkeyFromStr(req.mintAuthority).ok /\ PubkeyFromStr(req.mint).ok)
       => /\ resp.status = 200
          /\ Len(instr) = 1
          /\ LET a == instr[1].accounts
             IN /\ Len(a) = 2
                /\ PubkeyToString(a[1].pubkey) = req.mint
                /\ a[1].is_writable /\ ~a[1].is_signer
                /\ a[2].pubkey = RentSysvarId
                /\ ~a[2].is_writable /\ ~a[2].is_signer
    /\ (/\ req.route = "/token/mint"
        /\ PubkeyFromStr(req.mint).ok /\ PubkeyFromStr(req.destination).ok
        /\ PubkeyFromStr(req.authority).ok)
       => /\ resp.status = 200
          /\ Len(instr) = 1
          /\ LET a == instr[1].accounts
             IN /\ Len(a) = 3
                /\ PubkeyToString(a[1].pubkey) = req.mint /\ a[1].is_writable
                /\ PubkeyToString(a[2].pubkey) = req.destination /\ a[2].is_writable
                /\ PubkeyToString(a[3].pubkey) = req.authority /\ a[3].is_signer
    /\ (/\ req.route = "/send/token"
        /\ PubkeyFromStr(req.destination).ok /\ PubkeyFromStr(req.mint).ok
        /\ PubkeyFromStr(req.owner).ok)
       => /\ resp.status = 200
          /\ Len(instr) = 1
          /\ LET a == instr[1].accounts
             IN /\ Len(a) = 3
                /\ PubkeyToString(a[1].pubkey) = req.owner /\ a[1].is_writable
                /\ PubkeyToString(a[2].pubkey) = req.destination /\ a[2].is_writable
                /\ PubkeyToString(a[3].pubkey) = req.owner /\ a[3].is_signer
    /\ (/\ req.route = "/send/sol"
        /\ PubkeyFromStr(req.from).ok /\ PubkeyFromStr(req.to).ok)
       => /\ resp.status = 200
          /\ Len(instr) = 1
          /\ LET a == instr[1].accounts
             IN /\ Len(a) = 2
                /\ PubkeyToString(a[1].pubkey) = req.from
                /\ a[1].is_signer /\ a[1].is_writable
                /\ PubkeyToString(a[2].pubkey) = req.to /\ a[2].is_writable

C5_Witness ==
    /\ req.route = "/token/mint"
    /\ resp.status = 200
    /\ Len(instr) = 1
    /\ req.mint # req.destination
    /\ req.destination # req.authority
    /\ req.mint # req.authority

\* the eight bytes at off..off+7 of the base-64 payload, read little-endian
PayloadAmount(instruction_data, off) ==
    FromLeBytes(SubSeq(Base64Decode(instruction_data).bytes, off, off + 7))

\* C6: mint-to, token transfer and native transfer with addresses that parse
\* succeed for every amount, 0 and 2^64 - 1 included, and the amount read
\* little-endian from the returned payload is the requested one.
C6_AmountExact ==
    /\ (/\ req.route = "/token/mint"
        /\ PubkeyFromStr(req.mint).ok /\ PubkeyFromStr(req.destination).ok
        /\ PubkeyFromStr(req.authority).ok)
       => /\ resp.status = 200
          /\ PayloadAmount(resp.body.data.instruction_data, 2) = req.amount
    /\ (/\ req.route = "/send/token"
        /\ PubkeyFromStr(req.destination).ok /\ PubkeyFromStr(req.mint).ok
        /\ PubkeyFromStr(req.owner).ok)
       => /\ resp.status = 200
          /\ PayloadAmount(resp.body.data.instruction_data, 2) = req.amount
    /\ (/\ req.route = "/send/sol"
        /\ PubkeyFromStr(req.from).ok /\ PubkeyFromStr(req.to).ok)
       => /\ resp.status = 200
          /\ PayloadAmount(resp.body.data.instruction_data, 5) = req.lamports

C6_Witness ==
    /\ req.route = "/send/sol"
    /\ req.lamports = U64Max
    /\ resp.status = 200

C8_MalformedSecretDistinguished ==
    (/\ req.route = "/message/sign"
     /\ Len(req.message) > 0
     /\ Len(req.secret) > 0
     /\ \/ ~FromBase58(req.secret).ok
        \/ ~KeypairFromBytes(FromBase58(req.secret).bytes).ok)
    => /\ resp.status = 400
       /\ DOMAIN resp.body = {"success", "error"}
       /\ resp.body.success = FALSE
       /\ resp.body.error # "Missing required fields"

\* C9: /send/token fails when the mint text is not an address; a successful
\* response is the one any request with the same destination, owner and
\* amount and a valid mint gets; source account and signing authority of the
\* built instruction are both the owner.
C9_MintValidatedUnused ==
    req.route = "/send/token"
    => /\ ~PubkeyFromStr(req.mint).ok
          => resp.status = 400 /\ resp.body.success = FALSE
       /\ resp.status = 200
          => /\ \A r \in SendTokenRequests :
                  (/\ r.destination = req.destination
                   /\ r.owner = req.owner
                   /\ r.amount = req.amount
                   /\ PubkeyFromStr(r.mint).ok)
                  => /\ SendTokenResponses[r].status = 200
                     /\ SendTokenResponses[r].body = resp.body
             /\ PubkeyToString(instr[1].accounts[1].pubkey) = req.owner
             /\ PubkeyToString(instr[1].accounts[3].pubkey) = req.owner
             /\ instr[1].accounts[3].is_signer

\* a success for which another request differs in the mint alone
C9_Witness ==
    /\ req.route = "/send/token"
    /\ resp.status = 200
    /\ \E r \in SendTokenRequests :
          /\ r.destination = req.destination
          /\ r.owner = req.owner
          /\ r.amount = req.amount
          /\ r.mint # req.mint
          /\ PubkeyFromStr(r.mint).ok

\* C10 as claimed: on the four instruction-building routes every entry of
\* `accounts` carries the address, is_signer and is_writable of the
\* instruction's account at that position.
C10_FullAccountReferences ==
    (req.route \in BuilderRoutes /\ resp.status = 200)
    => resp.body.data.accounts =
         [i \in 1..Len(instr[1].accounts) |->
             [pubkey |-> PubkeyToString(instr[1].accounts[i].pubkey),
              is_signer |-> instr[1].accounts[i].is_signer,
              is_writable |-> instr[1].accounts[i].is_writable]]

\* C10 amended: one entry per account of the instruction, in its order;
\* {pubkey, is_signer, is_writable} on /token/create and /token/mint,
\* {pubkey, is_signer} on /send/token, the bare address text on /send/sol.
C10_AccountEntriesPerRoute ==
    (req.route \in BuilderRoutes /\ resp.status = 200)
    => LET a == instr[1].accounts
       IN resp.body.data.accounts =
            [i \in 1..Len(a) |->
                IF req.route = "/send/sol" THEN PubkeyToString(a[i].pubkey)
                ELSE IF req.route = "/send/token"
                THEN [pubkey |-> PubkeyToString(a[i].pubkey),
                      is_signer |-> a[i].is_signer]
                ELSE [pubkey |-> PubkeyToString(a[i].pubkey),
                      is_signer |-> a[i].is_signer,
                      is_writable |-> a[i].is_writable]]

C10_Witness ==
    /\ req.route \in {"/send/sol", "/send/token"}
    /\ resp.status = 200
    /\ Len(resp.body.data.accounts) = Len(instr[1].accounts)

====
